---------------------------- MODULE Spec2Model ----------------------------
(***************************************************************************)
(* A model of cfrun (src/cfrun.py): the toolchain table, the sidecar test  *)
(* file codec (save_tests / read_tests), the verification engine           *)
(* (run_tests) and the watch session (watch / Watcher).                    *)
(*                                                                         *)
(* Strings are TLA+ strings; TLC evaluates Len, \o, SubSeq, Head and Tail  *)
(* on them, so the code's character-level operations (startswith, strip,   *)
(* slicing, line splitting) are computed character by character.           *)
(* TLA+ string literals are ASCII, so the program's Russian literals are   *)
(* written in Latin letters of the same length where the length matters:   *)
(*   '# вывод' is "# vyvod", 'Пример' is "Primer".                         *)
(***************************************************************************)
EXTENDS Integers, Sequences, FiniteSets, TLC

VARIABLES
    \* ---- the codec exercised alone (SpecCodec) ----
    cases,       \* the list of Test handed to save_tests
    casesFrom,   \* "page": scraped from a page; "read": returned by read_tests
    file,        \* the sidecar file the codec reads and writes
    fileFrom,    \* "given": the file as found; "saved": written by save_tests(cases)
    decoded,     \* what the last read_tests returned
    readOf,      \* the file that read_tests call read
    readFrom,    \* fileFrom at the time of that read ("none" before any read)
    \* ---- the program (Spec) ----
    args,        \* the parsed command line: [watch, path]
    cwd,         \* the working directory (Path.absolute() prepends it)
    fs,          \* sidecar path -> file
    mainpc,      \* position of the main thread
    observer,    \* the watchdog observer: "new", "running", "stopped", "dead"
    queue,       \* notifications waiting in the observer's event queue
    arrived,     \* number of notifications the file system produced so far
    eng,         \* the run_tests invocation in flight (or the last one)
    stdout,      \* what the current handler printed, one element per print call
    ops,         \* external operations of the current run_tests, in order
    last,        \* the notification handled last and what became of it
    interrupted  \* TRUE once the KeyboardInterrupt was delivered

codecVars == <<cases, casesFrom, file, fileFrom, decoded, readOf, readFrom>>
progVars == <<args, cwd, fs, mainpc, observer, queue, arrived, eng, stdout, ops,
              last, interrupted>>
vars == <<cases, casesFrom, file, fileFrom, decoded, readOf, readFrom,
          args, cwd, fs, mainpc, observer, queue, arrived, eng, stdout, ops,
          last, interrupted>>

---------------------------------------------------------------------------
(* Bounds of the model. *)

\* at most this many tests in a fetched page (2 blocks per test)
MaxTests == 2
\* at most this many lines in a sidecar file given to the codec
MaxFileLines == 3
\* at most this many change notifications in one watch session
MaxEvents == 2

---------------------------------------------------------------------------
(* Python string operations. *)

Char(s, i) == SubSeq(s, i, i)

\* str.startswith
startswith(s, p) == Len(s) >= Len(p) /\ SubSeq(s, 1, Len(p)) = p

\* str.find and str.rfind for a one-character c, 1-based, 0 when absent:
\* the first occurrence at or after i, the last at or before i
RECURSIVE find(_, _, _)
find(s, c, i) ==
    IF i > Len(s) THEN 0 ELSE IF Char(s, i) = c THEN i ELSE find(s, c, i + 1)

RECURSIVE rfind(_, _, _)
rfind(s, c, i) ==
    IF i < 1 THEN 0 ELSE IF Char(s, i) = c THEN i ELSE rfind(s, c, i - 1)

\* c in s, for a one-character c
contains(s, c) == find(s, c, 1) # 0

\* the characters str.strip() removes (those that occur in this model)
Whitespace == {" ", "\n", "\t"}

\* the first character at or after i that strip keeps (Len(s) + 1 when none)
RECURSIVE lskip(_, _)
lskip(s, i) ==
    IF i > Len(s) \/ Char(s, i) \notin Whitespace THEN i ELSE lskip(s, i + 1)

\* the last character at or before i that strip keeps (0 when none)
RECURSIVE rskip(_, _)
rskip(s, i) ==
    IF i < 1 \/ Char(s, i) \notin Whitespace THEN i ELSE rskip(s, i - 1)

\* str.strip(): leading and trailing whitespace removed, the inside kept
strip(s) == SubSeq(s, lskip(s, 1), rskip(s, Len(s)))

\* s[k:] with k a 0-based start
slice_from(s, k) == SubSeq(s, k + 1, Len(s))

\* iteration over a text file: the lines, each with its line end kept
RECURSIVE file_lines(_)
file_lines(text) ==
    IF text = "" THEN <<>>
    ELSE IF find(text, "\n", 1) = 0 THEN <<text>>
    ELSE LET k == find(text, "\n", 1)
         IN  <<SubSeq(text, 1, k)>> \o file_lines(SubSeq(text, k + 1, Len(text)))

\* str(i) for the small naturals the model needs
str_int(i) == IF i \in 0..9 THEN Char("0123456789", i + 1) ELSE "1" \o Char("0123456789", i - 9)

RECURSIVE concat(_)
concat(ss) == IF ss = <<>> THEN "" ELSE Head(ss) \o concat(Tail(ss))

---------------------------------------------------------------------------
(* The codec: Test, save_tests, read_tests. *)

Test(name, input, output) == [name |-> name, input |-> input, output |-> output]

\* a file system entry: a missing file, or a file with its text
NoFile == [exists |-> FALSE, text |-> ""]
File(text) == [exists |-> TRUE, text |-> text]

\* what one test contributes to the file (the f-string of save_tests)
save_block(test) ==
    "### " \o test.name \o "\n" \o test.input \o "\n# vyvod\n" \o test.output \o "\n\n"

\* save_tests: the file is opened with 'w' (created or truncated) and gets
\* one block per test
save_tests(tests) == File(concat([i \in 1..Len(tests) |-> save_block(tests[i])]))

\* the locals of read_tests; in_output is unbound until a '### ' line binds it
ReadStart ==
    [tests |-> <<>>, name |-> "", input |-> "", output |-> "",
     in_output |-> "unbound", exc |-> ""]

\* faulty variant: the append done whatever the name
flush_any_name(st) == Append(st.tests, Test(st.name, strip(st.input), strip(st.output)))

\* tests.append(Test(name, input.strip(), output.strip())) when name is truthy
flush(st) ==
    IF st.name # ""
    THEN Append(st.tests, Test(st.name, strip(st.input), strip(st.output)))
    ELSE st.tests

\* faulty variant: the body of the loop taking any '#' line that is not a
\* name marker for the output marker
read_line_hash_is_marker(st, line) ==
    IF startswith(line, "### ")
    THEN [st EXCEPT !.tests = flush(st), !.name = strip(slice_from(line, 4)),
                    !.in_output = "false", !.input = "", !.output = ""]
    ELSE IF startswith(line, "#")
    THEN [st EXCEPT !.in_output = "true"]
    ELSE IF st.name # ""
    THEN IF st.in_output = "unbound" THEN [st EXCEPT !.exc = "UnboundLocalError"]
         ELSE IF st.in_output = "true" THEN [st EXCEPT !.output = st.output \o line]
         ELSE [st EXCEPT !.input = st.input \o line]
    ELSE st

\* faulty variant: the body of the loop without the `name and` guard of a body line
read_line_no_name_guard(st, line) ==
    IF startswith(line, "### ")
    THEN [st EXCEPT !.tests = flush(st), !.name = strip(slice_from(line, 4)),
                    !.in_output = "false", !.input = "", !.output = ""]
    ELSE IF startswith(line, "# vyvod")
    THEN [st EXCEPT !.in_output = "true"]
    ELSE IF ~startswith(line, "#")
    THEN IF st.in_output = "unbound" THEN [st EXCEPT !.exc = "UnboundLocalError"]
         ELSE IF st.in_output = "true" THEN [st EXCEPT !.output = st.output \o line]
         ELSE [st EXCEPT !.input = st.input \o line]
    ELSE st

\* the body of `for line in test_file`
read_line(st, line) ==
    IF startswith(line, "### ")
    THEN [st EXCEPT !.tests = flush(st), !.name = strip(slice_from(line, 4)),
                    !.in_output = "false", !.input = "", !.output = ""]
    ELSE IF startswith(line, "# vyvod")
    THEN [st EXCEPT !.in_output = "true"]
    ELSE IF st.name # "" /\ ~startswith(line, "#")
    THEN IF st.in_output = "unbound" THEN [st EXCEPT !.exc = "UnboundLocalError"]
         ELSE IF st.in_output = "true" THEN [st EXCEPT !.output = st.output \o line]
         ELSE [st EXCEPT !.input = st.input \o line]
    ELSE st

RECURSIVE read_loop(_, _)
read_loop(st, lines) ==
    IF lines = <<>> \/ st.exc # "" THEN st
    ELSE read_loop(read_line(st, Head(lines)), Tail(lines))

\* the values read_tests can produce: None, a list, or an exception
NoneResult == [kind |-> "None", tests |-> <<>>, exc |-> ""]
ListResult(tests) == [kind |-> "list", tests |-> tests, exc |-> ""]
Raised(exc) == [kind |-> "raise", tests |-> <<>>, exc |-> exc]

\* faulty variant: read_tests giving an empty list for a missing file
read_tests_no_signal(f) ==
    IF ~f.exists THEN ListResult(<<>>)
    ELSE LET st == read_loop(ReadStart, file_lines(f.text))
         IN  IF st.exc # "" THEN Raised(st.exc) ELSE ListResult(flush(st))

\* read_tests: FileNotFoundError gives None; any other exception escapes
read_tests(f) ==
    IF ~f.exists THEN NoneResult
    ELSE LET st == read_loop(ReadStart, file_lines(f.text))
         IN  IF st.exc # "" THEN Raised(st.exc) ELSE ListResult(flush(st))

\* faulty variant: scrape_samples keeping the texts of the blocks as they are
scrape_blocks_no_strip(pres) ==
    [i \in 1..(Len(pres) \div 2) |->
        Test("Primer " \o str_int(i), pres[2*i - 1], pres[2*i])]

\* scrape_samples, after the page is fetched and parsed: blocks are the texts
\* of the <pre> elements; each is stripped and the pairs are named by position
scrape_blocks(pres) ==
    [i \in 1..(Len(pres) \div 2) |->
        Test("Primer " \o str_int(i), strip(pres[2*i - 1]), strip(pres[2*i]))]

---------------------------------------------------------------------------
(* Inputs of the codec. *)

\* texts of <pre> elements of a problem page
PreTexts == {"5\n", "1 2\n3 4\n", "#.\n.#\n", "\n7 \n"}

RECURSIVE SeqsOfLen(_, _)
SeqsOfLen(S, n) ==
    IF n = 0 THEN {<<>>}
    ELSE {Append(s, x) : s \in SeqsOfLen(S, n - 1), x \in S}

RECURSIVE concat_seqs(_)
concat_seqs(ss) == IF ss = <<>> THEN <<>> ELSE Head(ss) \o concat_seqs(Tail(ss))

SeqsUpTo(S, n) == UNION {SeqsOfLen(S, k) : k \in 0..n}

\* the pages the fetch can return: up to MaxTests pairs of blocks
Pages == UNION {SeqsOfLen(PreTexts, 2 * k) : k \in 0..MaxTests}

\* lines a sidecar file may hold
FileLines ==
    {"### a\n", "### \n", "# vyvod\n", "5\n", " #x\n", "#c\n", "\n", "###  b \n"}

FileTexts == {concat(ls) : ls \in SeqsUpTo(FileLines, MaxFileLines)}

---------------------------------------------------------------------------
(* pathlib: Path.name, Path.suffix, Path.with_suffix, Path.absolute. *)

\* Path.name: the final component
path_name(p) == slice_from(p, rfind(p, "/", Len(p)))

\* the suffix of a name: from its last dot, unless that dot is the first or
\* the last character of the name
name_suffix(n, dot) == IF 1 < dot /\ dot < Len(n) THEN SubSeq(n, dot, Len(n)) ELSE ""

\* Path.suffix
suffix(p) == name_suffix(path_name(p), rfind(path_name(p), ".", Len(path_name(p))))

\* faulty variant: with_suffix adding the new suffix after the old one
with_suffix_append(p, suf) == p \o suf

\* Path.with_suffix: the suffix replaced (or added when there is none)
with_suffix(p, suf) == SubSeq(p, 1, Len(p) - Len(suffix(p))) \o suf

\* Path.absolute(): a relative path is put under the working directory
absolute(dir, p) == IF startswith(p, "/") THEN p ELSE dir \o "/" \o p

---------------------------------------------------------------------------
(* The toolchain table. *)

\* the entries of `languages` that are strings: the interpreter
Interpreters == [js |-> "node", php |-> "php", py |-> "python3", rb |-> "ruby"]

\* the entries of `languages` that are lambdas, applied to src: [run, compile]
Compilers(src) ==
    [c     |-> <<with_suffix(src, ""),
                 "gcc --std=gnu11 -lm -o " \o with_suffix(src, "") \o " " \o src>>,
     cpp   |-> <<with_suffix(src, ""),
                 "g++ " \o src \o " -lm -o " \o with_suffix(src, "")>>,
     cs    |-> <<with_suffix(src, ".exe"), "mcs " \o src>>,
     d     |-> <<with_suffix(src, ""), "dmd " \o src>>,
     kt    |-> <<"java -jar " \o with_suffix(src, ".jar"),
                 "kotlinc " \o src \o " -include-runtime -d " \o with_suffix(src, ".jar")>>,
     pas   |-> <<with_suffix(src, ""), "fpc " \o src>>,
     scala |-> <<"scala " \o with_suffix(src, ""), "scalac " \o src>>]

\* the keys of `languages`
languages == DOMAIN Interpreters \cup DOMAIN Compilers("")

\* Path(path).suffix[1:]
extension(path) == slice_from(suffix(path), 1)

\* faulty variant: is_file_type_known taking any suffix for a known one
is_file_type_known_any_suffix(path) == suffix(path) # ""

is_file_type_known(path) == extension(path) \in languages

\* what get_commands gives: the pair (run, compile), compile possibly None,
\* or the KeyError of the table lookup
Commands(run, compile) == [exc |-> "", run |-> run, compile |-> compile, compile_is_none |-> FALSE]
CommandsNoCompile(run) == [exc |-> "", run |-> run, compile |-> "", compile_is_none |-> TRUE]
CommandsRaised(exc) == [exc |-> exc, run |-> "", compile |-> "", compile_is_none |-> TRUE]

get_commands(source_path) ==
    LET key == extension(source_path)
    IN  IF key \notin languages THEN CommandsRaised("KeyError")
        ELSE IF key \notin DOMAIN Interpreters
        THEN Commands(Compilers(source_path)[key][1], Compilers(source_path)[key][2])
        ELSE CommandsNoCompile(Interpreters[key] \o " " \o source_path)

---------------------------------------------------------------------------
(* get_problem_url: the two regular expressions over the absolute path. *)

Digits == {Char("0123456789", i) : i \in 1..10}
Lower == "abcdefghijklmnopqrstuvwxyz"
Upper == "ABCDEFGHIJKLMNOPQRSTUVWXYZ"
Letters == {Char(Lower, i) : i \in 1..26} \cup {Char(Upper, i) : i \in 1..26}

IsDigit(s, i) == i <= Len(s) /\ Char(s, i) \in Digits
IsLetter(s, i) == i <= Len(s) /\ Char(s, i) \in Letters
IsOther(s, i) == i <= Len(s) /\ Char(s, i) \notin Letters

\* the end of the run of digits that starts at i
RECURSIVE digits_end(_, _)
digits_end(s, i) == IF IsDigit(s, i + 1) THEN digits_end(s, i + 1) ELSE i

\* re.findall(r'\d{2,}', s) from position i on: non-overlapping, leftmost, greedy
RECURSIVE findall_contest(_, _)
findall_contest(s, i) ==
    IF i > Len(s) THEN <<>>
    ELSE IF IsDigit(s, i) /\ digits_end(s, i) > i
    THEN <<SubSeq(s, i, digits_end(s, i))>> \o findall_contest(s, digits_end(s, i) + 1)
    ELSE findall_contest(s, i + 1)

\* the length of the match of [^A-Za-z][A-Za-z][0-9]?[^A-Za-z] at i, or 0
problem_match(s, i) ==
    IF ~(IsOther(s, i) /\ IsLetter(s, i + 1)) THEN 0
    ELSE IF IsDigit(s, i + 2) /\ IsOther(s, i + 3) THEN 4
    ELSE IF IsOther(s, i + 2) THEN 3
    ELSE 0

RECURSIVE findall_problem(_, _)
findall_problem(s, i) ==
    IF i > Len(s) THEN <<>>
    ELSE IF problem_match(s, i) > 0
    THEN <<SubSeq(s, i, i + problem_match(s, i) - 1)>>
             \o findall_problem(s, i + problem_match(s, i))
    ELSE findall_problem(s, i + 1)

upper_char(c) ==
    IF \E i \in 1..26 : Char(Lower, i) = c
    THEN Char(Upper, CHOOSE i \in 1..26 : Char(Lower, i) = c)
    ELSE c

\* str.upper()
upper(s) == concat([i \in 1..Len(s) |-> upper_char(Char(s, i))])

\* get_problem_url: [-1] of an empty findall raises IndexError
get_problem_url(dir, source_path) ==
    LET full_path == absolute(dir, source_path)
        contests == findall_contest(full_path, 1)
        problems == findall_problem(full_path, 1)
    IN  IF contests = <<>> \/ problems = <<>> THEN [exc |-> "IndexError", url |-> ""]
        ELSE LET m == problems[Len(problems)]
             IN  [exc |-> "",
                  url |-> "https://codeforces.com/contest/" \o contests[Len(contests)]
                          \o "/problem/" \o upper(SubSeq(m, 2, Len(m) - 1))]

---------------------------------------------------------------------------
(* The codec exercised alone: a file is found or written, then read. *)

\* save_tests(test_path, tests) with the tests a fetch produced
CodecSave ==
    /\ file' = save_tests(cases)
    /\ fileFrom' = "saved"
    /\ UNCHANGED <<cases, casesFrom, decoded, readOf, readFrom>>
    /\ UNCHANGED progVars

\* read_tests(test_path)
CodecRead ==
    /\ decoded' = read_tests(file)
    /\ readOf' = file
    /\ readFrom' = fileFrom
    /\ UNCHANGED <<cases, casesFrom, file, fileFrom>>
    /\ UNCHANGED progVars

\* the tests a read returned are the tests of a later save (get_tests keeps
\* no list between runs: a list is either read or scraped)
CodecAdopt ==
    /\ decoded.kind = "list"
    /\ readFrom = "given"
    /\ fileFrom = "given"
    /\ casesFrom = "page"
    /\ cases' = decoded.tests
    /\ casesFrom' = "read"
    /\ UNCHANGED <<file, fileFrom, decoded, readOf, readFrom>>
    /\ UNCHANGED progVars

CodecNext == CodecSave \/ CodecRead \/ CodecAdopt
---------------------------------------------------------------------------
(* Inputs of the program. *)

\* source paths given on the command line
PathPool ==
    {"a.py", "a.c", "a.cpp", "a.cs", "a.d", "a.js", "a.kt", "a.pas", "a.php",
     "a.rb", "a.scala", "a.txt", "a.PY", "a", ".py", "12/a.py.", "1234/a.py"}

\* change notifications of the watched tree: [kind, src_path, dest_path]
Event(kind, src, dest) == [kind |-> kind, src_path |-> src, dest_path |-> dest]

EventPool ==
    {Event("created", "1234/a.py", ""), Event("modified", "1234/a.c", ""),
     Event("modified", ".a.py", ""), Event("created", "#a.py", ""),
     Event("moved", ".a.tmp", "a.py"), Event("moved", "a.py", "a.py~")}

EventPaths == {e.src_path : e \in EventPool} \cup {e.dest_path : e \in EventPool}

\* the sidecar of a source: Path(source_path).with_suffix('.test')
test_path_of(source_path) == with_suffix(source_path, ".test")

SidecarPaths == {test_path_of(p) : p \in PathPool \cup EventPaths}

\* what the sidecar files hold when the program starts
SidecarFiles ==
    {NoFile, File(""), File("### t1\n5\n# vyvod\n5\n\n"),
     File("### t1\n5\n# vyvod\n5\n\n### t2\n1 2\n# vyvod\n1 2\n\n")}

\* working directories
Cwds == {"/home/u"}

\* what a compiler run can end with: an exit code, or the compiler is missing
CompileOutcomes == {"0", "1", "OSError"}

\* what the fetch of the page can end with: an exception of the request or
\* of the parse, or the <pre> texts of the page
FetchErrors == {"ConnectionError", "TypeError"}
FetchedSamples == {<<"5\n", "5\n">>, <<"3\n", " 1 2\n">>}
FetchedPages ==
    {concat_seqs(ss) : ss \in UNION {SeqsOfLen(FetchedSamples, k) : k \in 0..MaxTests}}

\* what a run of the program under test can end with: its standard output,
\* or subprocess.run raising
RunOutputs == {"5\n", " 1 2\n", "1  2\n"}
RunErrors == {"TimeoutExpired", "OSError"}

---------------------------------------------------------------------------
(* The verification engine: run_tests and get_tests. *)

Op(op, n, res) == [op |-> op, n |-> n, res |-> res, out |-> ""]

\* the program was run on test n and wrote out to its standard output
RunOp(n, res, out) == [op |-> "run", n |-> n, res |-> res, out |-> out]

\* no run_tests invocation yet
NoRun ==
    [pc |-> "idle", thread |-> "", path |-> "", run_cmd |-> "", tests |-> <<>>,
     i |-> 0, ret |-> "", exc |-> "", n |-> 0]

\* the state a step of the engine leaves: the invocation, the output, the
\* operations done and the files
Outcome(e, out, o, f) == [eng |-> e, stdout |-> out, ops |-> o, fs |-> f]

\* run_tests returns (None after a failed compile, True after the loop)
Return(e, ret) == [e EXCEPT !.pc = "returned", !.ret = ret]
\* an exception leaves run_tests
Raise(e, exc) == [e EXCEPT !.pc = "raised", !.exc = exc]

\* the for loop over the tests, entered or continued at test i: the loop ends
\* when the tests are exhausted and run_tests returns True
loop_at(e, i) ==
    IF i > Len(e.tests) THEN Return([e EXCEPT !.i = i], "True")
    ELSE [e EXCEPT !.pc = "loop", !.i = i]

\* faulty variant: get_tests fetching when the tests read are falsy (`if not
\* tests`), so also for a sidecar with no test in it
load_tests_fetch_when_empty(e, out, o, f, dir) ==
    LET out1 == Append(out, "Zapuskayu: " \o e.run_cmd \o "\n")
        test_path == test_path_of(e.path)
        tests == read_tests(f[test_path])
        o1 == Append(o, Op("read", 0, tests.kind))
        url == get_problem_url(dir, e.path)
    IN  IF tests.kind = "raise" THEN Outcome(Raise(e, tests.exc), out1, o1, f)
        ELSE IF tests.kind = "None" \/ tests.tests = <<>>
        THEN IF url.exc # "" THEN Outcome(Raise(e, url.exc), out1, o1, f)
             ELSE Outcome([e EXCEPT !.pc = "fetch"],
                          Append(out1, "Skachivayu primery s " \o url.url \o "\n"), o1, f)
        ELSE Outcome(loop_at([e EXCEPT !.tests = tests.tests], 1),
                     Append(out1, "Ispolzuyu testy iz faila " \o test_path \o "\n"), o1, f)

\* faulty variant: get_tests saving the tests whether read or fetched
load_tests_always_save(e, out, o, f, dir) ==
    LET out1 == Append(out, "Zapuskayu: " \o e.run_cmd \o "\n")
        test_path == test_path_of(e.path)
        tests == read_tests(f[test_path])
        o1 == Append(o, Op("read", 0, tests.kind))
        url == get_problem_url(dir, e.path)
    IN  IF tests.kind = "raise" THEN Outcome(Raise(e, tests.exc), out1, o1, f)
        ELSE IF tests.kind = "None"
        THEN IF url.exc # "" THEN Outcome(Raise(e, url.exc), out1, o1, f)
             ELSE Outcome([e EXCEPT !.pc = "fetch"],
                          Append(out1, "Skachivayu primery s " \o url.url \o "\n"), o1, f)
        ELSE Outcome(loop_at([e EXCEPT !.tests = tests.tests], 1),
                     Append(out1, "Ispolzuyu testy iz faila " \o test_path \o "\n"),
                     Append(o1, Op("write", 0, "ok")),
                     [f EXCEPT ![test_path] = save_tests(tests.tests)])

\* run_tests from "Запускаю" to the start of the page fetch or of the loop:
\* get_tests reads the sidecar; when there is none it derives the URL
load_tests(e, out, o, f, dir) ==
    LET out1 == Append(out, "Zapuskayu: " \o e.run_cmd \o "\n")
        test_path == test_path_of(e.path)
        tests == read_tests(f[test_path])
        o1 == Append(o, Op("read", 0, tests.kind))
        url == get_problem_url(dir, e.path)
    IN  IF tests.kind = "raise" THEN Outcome(Raise(e, tests.exc), out1, o1, f)
        ELSE IF tests.kind = "None"
        THEN IF url.exc # "" THEN Outcome(Raise(e, url.exc), out1, o1, f)
             ELSE Outcome([e EXCEPT !.pc = "fetch"],
                          Append(out1, "Skachivayu primery s " \o url.url \o "\n"), o1, f)
        ELSE Outcome(loop_at([e EXCEPT !.tests = tests.tests], 1),
                     Append(out1, "Ispolzuyu testy iz faila " \o test_path \o "\n"), o1, f)

\* the start of run_tests: get_commands, then the compiler is started, or
\* there is none and the tests are loaded
run_tests_begin(thread, source_path, n, out, f, dir) ==
    LET cmds == get_commands(source_path)
        e == [NoRun EXCEPT !.thread = thread, !.path = source_path, !.n = n,
                           !.run_cmd = cmds.run]
    IN  IF cmds.exc # "" THEN Outcome(Raise(e, cmds.exc), out, <<>>, f)
        ELSE IF ~cmds.compile_is_none /\ cmds.compile # ""
        THEN Outcome([e EXCEPT !.pc = "compile"],
                     Append(out, "Kompiliruyu: " \o cmds.compile \o "\n"), <<>>, f)
        ELSE load_tests(e, out, <<>>, f, dir)

\* faulty variant: run_tests going on whatever the compiler's exit code
compile_done_ignore_code(e, out, o, f, dir, code) ==
    IF code = "OSError" THEN Outcome(Raise(e, code), out, Append(o, Op("compile", 0, code)), f)
    ELSE load_tests(e, out, Append(o, Op("compile", 0, code)), f, dir)

\* subprocess.run(compile_cmd.split()) is over
compile_done(e, out, o, f, dir, code) ==
    LET o1 == Append(o, Op("compile", 0, code))
        compile_cmd == get_commands(e.path).compile
    IN  IF code = "OSError" THEN Outcome(Raise(e, code), out, o1, f)
        ELSE IF code # "0"
        THEN Outcome(Return(e, "None"),
                     Append(out, "Oshibka kompilyatsii (" \o compile_cmd \o ")\n"), o1, f)
        ELSE load_tests(e, out, o1, f, dir)

\* scrape_samples is over: it raised, or the page's blocks became the tests,
\* which get_tests writes to the sidecar before the loop starts
fetch_done(e, out, o, f, res) ==
    LET test_path == test_path_of(e.path)
        tests == scrape_blocks(res.page)
    IN  IF res.exc # "" THEN Outcome(Raise(e, res.exc), out, Append(o, Op("fetch", 0, res.exc)), f)
        ELSE Outcome(loop_at([e EXCEPT !.tests = tests], 1),
                     Append(out, "Ok, zagruzil " \o str_int(Len(tests))
                                 \o " primerov, zapisyvayu v " \o test_path \o "\n"),
                     o \o <<Op("fetch", 0, "ok"), Op("write", 0, "ok")>>,
                     [f EXCEPT ![test_path] = save_tests(tests)])

\* the output of one test printed after its name
mismatch_report(test, output) ==
    <<"otvet ne sovpal\n", "Ozhidaemyi otvet:\n", test.output \o "\n",
      "Poluchennyi otvet:\n", output \o "\n">>

\* faulty variant: one iteration of the loop without the break after a mismatch
test_done_no_break(e, out, o, f, res) ==
    LET test == e.tests[e.i]
        out1 == Append(out, test.name \o ": ")
        output == strip(res.stdout)
    IN  IF res.exc # ""
        THEN Outcome(Raise(e, res.exc), out1, Append(o, RunOp(e.i, res.exc, "")), f)
        ELSE IF output = test.output
        THEN Outcome(loop_at(e, e.i + 1), Append(out1, "OK\n"),
                     Append(o, RunOp(e.i, "OK", res.stdout)), f)
        ELSE Outcome(loop_at(e, e.i + 1), out1 \o mismatch_report(test, output),
                     Append(o, RunOp(e.i, "mismatch", res.stdout)), f)

\* one iteration of the loop: the program ran on test i
test_done(e, out, o, f, res) ==
    LET test == e.tests[e.i]
        out1 == Append(out, test.name \o ": ")
        output == strip(res.stdout)
    IN  IF res.exc # ""
        THEN Outcome(Raise(e, res.exc), out1, Append(o, RunOp(e.i, res.exc, "")), f)
        ELSE IF output = test.output
        THEN Outcome(loop_at(e, e.i + 1), Append(out1, "OK\n"),
                     Append(o, RunOp(e.i, "OK", res.stdout)), f)
        ELSE Outcome(Return(e, "True"), out1 \o mismatch_report(test, output),
                     Append(o, RunOp(e.i, "mismatch", res.stdout)), f)

---------------------------------------------------------------------------
(* The watch filter. *)

\* faulty variant: is_ignored without the backup marker
is_ignored_hidden_only(path) == startswith(path_name(path), ".")

\* is_ignored: a hidden file, or a name with the backup marker
is_ignored(path) == startswith(path_name(path), ".") \/ contains(path_name(path), "#")

\* the path a Watcher method hands to handle_file_change
handled_path(ev) == IF ev.kind = "moved" THEN ev.dest_path ELSE ev.src_path

\* the message a Watcher method hands to handle_file_change
handled_message(ev) ==
    IF ev.kind = "created" THEN "Sozdan"
    ELSE IF ev.kind = "modified" THEN "Izmenen"
    ELSE "Pereremeshchen"

\* handle_file_change lets the path through (path.is_absolute is a bound
\* method, always truthy, so the path is never made relative)
accepts(path) == ~is_ignored(path) /\ is_file_type_known(path)

NoEvent == [any |-> FALSE, ev |-> Event("", "", ""), invoked |-> 0, late |-> FALSE]

---------------------------------------------------------------------------
(* The program: main, the one-shot run, the watch session. *)

InFlight == eng.pc \in {"compile", "fetch", "loop"}

\* faulty variant: notifications handled without waiting for the handler
\* that is running
ObserverIdleUnchecked == TRUE

\* the observer thread is free to take a notification: it is the one thread
\* that calls the Watcher, and it is not inside handle_file_change
ObserverIdle == ~InFlight

\* a step of the engine took effect; when run_tests is over, control goes
\* back to its thread: main exits (or dies of the exception), the observer
\* thread goes back to its queue (or dies of the exception)
Apply(res) ==
    /\ eng' = res.eng
    /\ stdout' = res.stdout
    /\ ops' = res.ops
    /\ fs' = res.fs
    /\ mainpc' = IF res.eng.thread # "main" THEN mainpc
                 ELSE IF res.eng.pc = "returned" THEN "exit"
                 ELSE IF res.eng.pc = "raised" THEN "crashed"
                 ELSE "run_tests"
    /\ observer' = IF res.eng.thread = "observer" /\ res.eng.pc = "raised"
                   THEN "dead" ELSE observer

\* main without --watch: a known file type is run, another is reported
MainOneShot ==
    /\ mainpc = "main"
    /\ ~args.watch
    /\ IF is_file_type_known(args.path)
       THEN Apply(run_tests_begin("main", args.path, 1, <<>>, fs, cwd))
       ELSE /\ stdout' = <<"Ne znayu, chto delat s failom takogo tipa: " \o args.path \o "\n">>
            /\ mainpc' = "exit"
            /\ UNCHANGED <<eng, ops, fs, observer>>
    /\ UNCHANGED <<args, cwd, queue, arrived, last, interrupted>>
    /\ UNCHANGED codecVars

\* main with --watch, up to the sleep loop of watch(): the observer is started
MainWatch ==
    /\ mainpc = "main"
    /\ args.watch
    /\ stdout' = <<"Slezhu za izmeneniyami v " \o args.path \o "\n">>
    /\ observer' = "running"
    /\ mainpc' = "sleep"
    /\ UNCHANGED <<args, cwd, fs, queue, arrived, eng, ops, last, interrupted>>
    /\ UNCHANGED codecVars

\* the file system reports a change: the emitter queues a notification
Notify ==
    /\ observer = "running"
    /\ arrived < MaxEvents
    /\ \E ev \in EventPool : queue' = Append(queue, ev)
    /\ arrived' = arrived + 1
    /\ UNCHANGED <<args, cwd, fs, mainpc, observer, eng, stdout, ops, last, interrupted>>
    /\ UNCHANGED codecVars

\* the observer thread takes the next notification and calls the Watcher
\* method for it: on_created, on_modified or on_moved, each of which is
\* handle_file_change
Dispatch ==
    /\ observer = "running"
    /\ queue # <<>>
    /\ ObserverIdle
    /\ LET ev == Head(queue)
           path == handled_path(ev)
       IN  /\ queue' = Tail(queue)
           /\ IF accepts(path)
              THEN /\ Apply(run_tests_begin("observer", path, eng.n + 1,
                                <<handled_message(ev) \o " fail " \o path \o "\n">>, fs, cwd))
                   /\ last' = [any |-> TRUE, ev |-> ev, invoked |-> 1, late |-> interrupted]
              ELSE /\ last' = [any |-> TRUE, ev |-> ev, invoked |-> 0, late |-> interrupted]
                   /\ UNCHANGED <<eng, stdout, ops, fs, mainpc, observer>>
    /\ UNCHANGED <<args, cwd, arrived, interrupted>>
    /\ UNCHANGED codecVars

\* the compiler exits
CompileExit ==
    /\ eng.pc = "compile"
    /\ \E code \in CompileOutcomes : Apply(compile_done(eng, stdout, ops, fs, cwd, code))
    /\ UNCHANGED <<args, cwd, queue, arrived, last, interrupted>>
    /\ UNCHANGED codecVars

\* scrape_samples ends: an exception, or a page
FetchReturn ==
    /\ eng.pc = "fetch"
    /\ \E res \in {[exc |-> x, page |-> <<>>] : x \in FetchErrors}
                   \cup {[exc |-> "", page |-> pg] : pg \in FetchedPages} :
           Apply(fetch_done(eng, stdout, ops, fs, res))
    /\ UNCHANGED <<args, cwd, queue, arrived, last, interrupted>>
    /\ UNCHANGED codecVars

\* the program under test ends on the current test, or subprocess.run raises
RunTest ==
    /\ eng.pc = "loop"
    /\ \E res \in {[exc |-> x, stdout |-> ""] : x \in RunErrors}
                   \cup {[exc |-> "", stdout |-> t] : t \in RunOutputs} :
           Apply(test_done(eng, stdout, ops, fs, res))
    /\ UNCHANGED <<args, cwd, queue, arrived, last, interrupted>>
    /\ UNCHANGED codecVars

\* Ctrl-C: KeyboardInterrupt is raised in the main thread, inside time.sleep
Interrupt ==
    /\ mainpc = "sleep"
    /\ mainpc' = "except"
    /\ interrupted' = TRUE
    /\ UNCHANGED <<args, cwd, fs, observer, queue, arrived, eng, stdout, ops, last>>
    /\ UNCHANGED codecVars

\* the except clause: observer.stop()
ObserverStop ==
    /\ mainpc = "except"
    /\ observer' = "stopped"
    /\ mainpc' = "join"
    /\ UNCHANGED <<args, cwd, fs, queue, arrived, eng, stdout, ops, last, interrupted>>
    /\ UNCHANGED codecVars

\* observer.join() returns once the observer thread has ended; a handler in
\* flight is finished first
ObserverJoin ==
    /\ mainpc = "join"
    /\ ~InFlight
    /\ mainpc' = "exit"
    /\ UNCHANGED <<args, cwd, fs, observer, queue, arrived, eng, stdout, ops, last,
                   interrupted>>
    /\ UNCHANGED codecVars

---------------------------------------------------------------------------
(* The specifications. *)

CodecIdle ==
    /\ cases = <<>>
    /\ casesFrom = "page"
    /\ file = NoFile
    /\ fileFrom = "given"
    /\ decoded = NoneResult
    /\ readOf = NoFile
    /\ readFrom = "none"

ProgIdle ==
    /\ args = [watch |-> FALSE, path |-> ""]
    /\ cwd = ""
    /\ fs = [p \in SidecarPaths |-> NoFile]
    /\ mainpc = "off"
    /\ observer = "new"
    /\ queue = <<>>
    /\ arrived = 0
    /\ eng = NoRun
    /\ stdout = <<>>
    /\ ops = <<>>
    /\ last = NoEvent
    /\ interrupted = FALSE

\* the program is started: one-shot on a path, or watching the directory
Init ==
    /\ CodecIdle
    /\ args \in {[watch |-> TRUE, path |-> "."]}
                \cup {[watch |-> FALSE, path |-> p] : p \in PathPool}
    /\ cwd \in Cwds
    /\ \E f \in SidecarFiles : fs = [p \in SidecarPaths |-> f]
    /\ mainpc = "main"
    /\ observer = "new"
    /\ queue = <<>>
    /\ arrived = 0
    /\ eng = NoRun
    /\ stdout = <<>>
    /\ ops = <<>>
    /\ last = NoEvent
    /\ interrupted = FALSE

Next ==
    \/ MainOneShot
    \/ MainWatch
    \/ Notify
    \/ Dispatch
    \/ CompileExit
    \/ FetchReturn
    \/ RunTest
    \/ Interrupt
    \/ ObserverStop
    \/ ObserverJoin

Spec == Init /\ [][Next]_vars

\* the codec alone: the tests of a fetched page with no file yet, or a file
\* as found
CodecInit ==
    /\ ProgIdle
    /\ \/ /\ cases \in {scrape_blocks(pg) : pg \in Pages}
          /\ file = NoFile
       \/ /\ cases = <<>>
          /\ file \in {File(t) : t \in FileTexts}
    /\ casesFrom = "page"
    /\ fileFrom = "given"
    /\ decoded = NoneResult
    /\ readOf = NoFile
    /\ readFrom = "none"

SpecCodec == CodecInit /\ [][CodecNext]_vars

---------------------------------------------------------------------------
(* Properties of the codec, checked under SpecCodec. *)

\* the lines of a text field, without their line ends
text_lines(text) ==
    [i \in 1..Len(file_lines(text)) |->
        LET l == file_lines(text)[i]
        IN  IF contains(l, "\n") THEN SubSeq(l, 1, Len(l) - 1) ELSE l]

\* no line of the text is a marker line: neither a name marker ('### ...')
\* nor the output marker ('# вывод...')
MarkerFree(text) ==
    \A i \in 1..Len(text_lines(text)) :
        /\ ~startswith(text_lines(text)[i], "### ")
        /\ ~startswith(text_lines(text)[i], "# vyvod")

\* the tests the round-trip law speaks of
RoundTripInput(tests) ==
    \A i \in 1..Len(tests) :
        /\ tests[i].name # ""
        /\ MarkerFree(tests[i].input)
        /\ MarkerFree(tests[i].output)

\* C1: round trip. For every sequence of tests with non-empty names and
\* marker-free input and output, reading the file save_tests wrote returns
\* exactly that sequence.
C1_RoundTrip ==
    (readFrom = "saved" /\ RoundTripInput(cases)) => decoded = ListResult(cases)

\* C7: reading a sidecar path that does not exist returns None, a present
\* file never gives None, and the read of a missing file does not raise.
C7_MissingFileGivesNone ==
    readFrom # "none" =>
        /\ ~readOf.exists => decoded = NoneResult
        /\ readOf.exists => decoded.kind # "None"

\* C7's case: a missing sidecar was read
C7_Witness == readFrom # "none" /\ ~readOf.exists /\ decoded.kind = "None"

\* a line that starts a block with a non-empty name
StartsNamedBlock(line) == startswith(line, "### ") /\ strip(slice_from(line, 4)) # ""

\* C8: read_tests is total on present files: whatever the lines, it returns a
\* list without raising, and the list is empty when no line starts a block
\* with a non-empty name.
C8_DecodeTotal ==
    (readFrom # "none" /\ readOf.exists) =>
        /\ decoded.kind = "list"
        /\ (\A i \in 1..Len(file_lines(readOf.text)) :
                ~StartsNamedBlock(file_lines(readOf.text)[i]))
           => decoded.tests = <<>>

\* C8's case: a file that starts with the output marker and a body line,
\* before any name marker, was read
C8_Witness ==
    /\ readFrom = "given"
    /\ readOf.exists
    /\ Len(file_lines(readOf.text)) >= 2
    /\ file_lines(readOf.text)[1] = "# vyvod\n"
    /\ file_lines(readOf.text)[2] = "5\n"
    /\ decoded.kind = "list"

---------------------------------------------------------------------------
(* Properties of the engine and of the watch session, checked under Spec. *)

IsRun(o) == o.op = "run"

\* the test runs of the current run_tests, in order
RunOps == SelectSeq(ops, IsRun)

\* C2: abort on first failure. The executed tests are a prefix of the corpus
\* in order, every executed test but the last passed, and a mismatch ends
\* run_tests with the diff printed last.
C2_AbortOnFirstFailure ==
    \A k \in 1..Len(RunOps) :
        /\ RunOps[k].n = k
        /\ k <= Len(eng.tests)
        /\ k < Len(RunOps) => RunOps[k].res = "OK"
        /\ RunOps[k].res = "mismatch" =>
              /\ eng.pc = "returned"
              /\ Len(stdout) >= 5
              /\ stdout[Len(stdout) - 4] = "otvet ne sovpal\n"
              /\ stdout[Len(stdout) - 2] = eng.tests[k].output \o "\n"

\* C2's case: the first of two tests did not match and the second never ran
C2_Witness ==
    /\ Len(eng.tests) = 2
    /\ Len(RunOps) = 1
    /\ RunOps[1].res = "mismatch"
    /\ eng.pc = "returned"

\* C3: a compile that exits non-zero ends run_tests (returning None after the
\* error message) with no sidecar read, no fetch, no sidecar write and no run;
\* a compile that exits zero is followed by the loading of the tests.
C3_CompileFailureTerminal ==
    (ops # <<>> /\ ops[1].op = "compile") =>
        /\ ops[1].res = "1" =>
              /\ ops = <<Op("compile", 0, "1")>>
              /\ eng.pc = "returned"
              /\ eng.ret = "None"
              /\ stdout[Len(stdout)]
                    = "Oshibka kompilyatsii (" \o get_commands(eng.path).compile \o ")\n"
        /\ ops[1].res = "0" => (Len(ops) >= 2 /\ ops[2].op = "read")

\* C3's case: the compiler of a compiled-toolchain source exited with 1
C3_Witness ==
    /\ ops = <<Op("compile", 0, "1")>>
    /\ eng.pc = "returned"
    /\ ~get_commands(eng.path).compile_is_none

\* C4: a run that exceeds the timeout is a per-test outcome: run_tests goes
\* on to return to its caller; the timeout does not leave it as an exception.
C4_TimeoutIsTestOutcome ==
    \A k \in 1..Len(ops) :
        (ops[k].op = "run" /\ ops[k].res = "TimeoutExpired") => eng.pc # "raised"

\* the sidecar was missing and the samples could not be fetched
FetchFailed ==
    /\ ops # <<>>
    /\ \/ /\ ops[Len(ops)] = Op("read", 0, "None")
          /\ get_problem_url(cwd, eng.path).exc # ""
       \/ /\ ops[Len(ops)].op = "fetch"
          /\ ops[Len(ops)].res # "ok"

\* C5: a fetch failure is not fatal: run_tests does not raise, and it ends
\* having run the program once.
C5_FetchFailureNotFatal ==
    FetchFailed =>
        /\ eng.pc # "raised"
        /\ eng.pc = "returned" => Len(RunOps) = 1

\* the extensions of the language table, as listed in the table
TableKeys == {"c", "cpp", "cs", "d", "js", "kt", "pas", "php", "py", "rb", "scala"}

\* C6: a path whose extension is not a key of the table: the one-shot main
\* reports it and the engine does nothing (no compile, no read, no fetch, no
\* run); for the path of the command line and for the path of every handled
\* notification, get_commands answers KeyError and run_tests ends there
\* having done nothing; and is_file_type_known is false for exactly those
\* paths.
C6_UnknownToolchain ==
    /\ (~args.watch /\ mainpc # "main" /\ extension(args.path) \notin TableKeys) =>
          /\ mainpc = "exit"
          /\ eng = NoRun
          /\ ops = <<>>
          /\ stdout = <<"Ne znayu, chto delat s failom takogo tipa: " \o args.path \o "\n">>
    /\ (~args.watch /\ mainpc # "main" /\ extension(args.path) \in TableKeys) => eng.n = 1
    /\ \A p \in IF last.any THEN {handled_path(last.ev)}
                 ELSE IF args.watch THEN {} ELSE {args.path} :
          /\ is_file_type_known(p) <=> extension(p) \in TableKeys
          /\ extension(p) \notin TableKeys =>
                /\ get_commands(p) = CommandsRaised("KeyError")
                /\ run_tests_begin("main", p, 1, <<>>, fs, cwd)
                      = Outcome(Raise([NoRun EXCEPT !.thread = "main", !.path = p, !.n = 1],
                                      "KeyError"), <<>>, <<>>, fs)

\* C6's case: the one-shot main was given a path with an unknown extension
C6_Witness ==
    /\ ~args.watch
    /\ mainpc = "exit"
    /\ args.path = "a.txt"
    /\ eng = NoRun

\* C9: the watch filter. A notification whose handled path (dest_path of a
\* move, src_path otherwise) has a name that starts with '.' or contains '#',
\* or an extension that is not in the table, starts no run_tests; any other
\* starts one, after the notice is printed.
C9_WatchFilter ==
    last.any =>
        LET path == handled_path(last.ev)
            dropped == \/ Char(path_name(path), 1) = "."
                       \/ \E i \in 1..Len(path_name(path)) : Char(path_name(path), i) = "#"
                       \/ extension(path) \notin TableKeys
        IN  /\ dropped => last.invoked = 0
            /\ ~dropped =>
                  /\ last.invoked = 1
                  /\ eng.path = path
                  /\ eng.n >= 1
                  /\ stdout[1] = handled_message(last.ev) \o " fail " \o path \o "\n"

\* C9's case: a notification for a file with the backup marker and a known
\* extension was handled
C9_Witness ==
    /\ last.any
    /\ last.ev = Event("created", "#a.py", "")
    /\ last.invoked = 0

\* C10: once the interrupt is requested no notification starts an engine run
\* any more, and when watch returns the subscription is stopped and no
\* handler is running.
C10_NoRunAfterInterrupt ==
    /\ (last.any /\ last.late) => last.invoked = 0
    /\ (args.watch /\ mainpc = "exit") => (observer = "stopped" /\ ~InFlight)

---------------------------------------------------------------------------
(* The return value of run_tests. *)

\* the value run_tests returns when its loop runs out, every test having
\* passed
AllPassedValue == loop_at(eng, Len(eng.tests) + 1).ret

\* C11: the value run_tests returns distinguishes the outcome of the pass: a
\* pass that ended on a failed test returns a value other than the one
\* returned when all the tests passed.
C11_ReturnDistinguishesOutcome ==
    (eng.pc = "returned" /\ RunOps # <<>> /\ RunOps[Len(RunOps)].res = "mismatch") =>
        eng.ret # AllPassedValue

---------------------------------------------------------------------------
(* The pass criterion. *)

\* the program ran to its end on the test of operation o
Compared(o) == o.op = "run" /\ o.res \in {"OK", "mismatch"}

\* C12: the pass criterion is trim-insensitive and otherwise exact. Whether
\* the tests came from the sidecar or from a fetch, a test is reported OK
\* exactly when the standard output of the program, stripped, equals the
\* expected output, stripped; the report printed last is "OK" in that case
\* and the expected/obtained pair otherwise.
C12_PassCriterion ==
    \A k \in 1..Len(ops) :
        Compared(ops[k]) =>
            LET expected == eng.tests[ops[k].n].output
                same == strip(ops[k].out) = strip(expected)
            IN  /\ ops[k].res = "OK" <=> same
                /\ (k = Len(ops) /\ same) => stdout[Len(stdout)] = "OK\n"
                /\ (k = Len(ops) /\ ~same) =>
                      stdout[Len(stdout)] = strip(ops[k].out) \o "\n"

\* C12's case: after a fetch, the second sample passed on an output that
\* equals the expected one only after stripping, and, from the sidecar, a
\* test failed on an output that differs inside
C12_Witness ==
    /\ \E k \in 1..Len(ops) : ops[k].op = "fetch" /\ ops[k].res = "ok"
    /\ \E k \in 1..Len(ops) :
          /\ ops[k] = RunOp(2, "OK", " 1 2\n")
          /\ eng.tests[2].output = "1 2"

\* C12's other case: a test from the sidecar failed on an output that
\* differs from the expected one inside the text only
C12_InternalDifference ==
    /\ ops # <<>>
    /\ ops[1] = Op("read", 0, "list")
    /\ ops[Len(ops)] = RunOp(2, "mismatch", "1  2\n")
    /\ eng.tests[2].output = "1 2"

---------------------------------------------------------------------------
(* The shape of the toolchain table. *)

InterpretedKeys == {"js", "php", "py", "rb"}
CompiledKeys == {"c", "cpp", "cs", "d", "kt", "pas", "scala"}

endswith(s, t) == Len(t) <= Len(s) /\ SubSeq(s, Len(s) - Len(t) + 1, Len(s)) = t

\* t occurs in s
occurs(s, t) == \E i \in 1..(Len(s) - Len(t) + 1) : SubSeq(s, i, i + Len(t) - 1) = t

\* the path without its extension and the dot before it
stem(path) == SubSeq(path, 1, Len(path) - Len(extension(path)) - 1)

\* the file the compiler of a compiled entry leaves for the run
artifact(path) ==
    stem(path) \o (IF extension(path) = "cs" THEN ".exe"
                   ELSE IF extension(path) = "kt" THEN ".jar" ELSE "")

\* the run command is one word, a space and the path
InterpreterAndPath(run, path) ==
    /\ endswith(run, " " \o path)
    /\ Len(run) > Len(path) + 1
    /\ ~contains(SubSeq(run, 1, Len(run) - Len(path) - 1), " ")

\* C13: the shape of the toolchain table. For the path of the current
\* run_tests: an interpreted entry (js, php, py, rb) gives the run command
\* "interpreter path" and no compile command, and no compiler is started; a
\* compiled entry (c, cpp, cs, d, kt, pas, scala) gives a compile command,
\* which names the source and is the one announced and started, and a run
\* command that ends with the artifact derived from the path (extension
\* stripped, .exe for cs, .jar for kt); the run command of the invocation is
\* the one get_commands gives for the path.
C13_ToolchainShape ==
    (eng.pc # "idle" /\ extension(eng.path) \in TableKeys) =>
        LET cmds == get_commands(eng.path)
        IN  /\ cmds.exc = ""
            /\ eng.run_cmd = cmds.run
            /\ extension(eng.path) \in InterpretedKeys =>
                  /\ cmds.compile_is_none
                  /\ InterpreterAndPath(cmds.run, eng.path)
                  /\ eng.pc # "compile"
                  /\ \A k \in 1..Len(ops) : ops[k].op # "compile"
            /\ extension(eng.path) \in CompiledKeys =>
                  /\ ~cmds.compile_is_none
                  /\ cmds.compile # ""
                  /\ occurs(cmds.compile, eng.path)
                  /\ endswith(cmds.run, artifact(eng.path))
                  /\ eng.pc = "compile" =>
                        stdout[Len(stdout)] = "Kompiliruyu: " \o cmds.compile \o "\n"
                  /\ eng.pc # "compile" => (ops # <<>> /\ ops[1].op = "compile")

\* C13's case: the Kotlin source is being compiled; its run command uses the
\* jar named after the path
C13_Witness ==
    /\ eng.pc = "compile"
    /\ eng.path = "a.kt"
    /\ eng.run_cmd = "java -jar a.jar"

---------------------------------------------------------------------------
(* The watch session and the failures of a run. *)

\* C14: the watch session survives the failures of a run. Nothing that
\* happens inside a run_tests started for a notification leaves the handler
\* as an exception, and the observer thread stays able to handle the next
\* accepted notification until the interrupt.
C14_WatchSurvivesFailures ==
    /\ eng.thread = "observer" => eng.pc # "raised"
    /\ observer # "dead"

---------------------------------------------------------------------------
(* The sidecar file in one run. *)

IsRead(o) == o.op = "read"
IsWrite(o) == o.op = "write"

\* the operations of the current run_tests: one read at most, one write at
\* most, the write right after the successful fetch that followed the read
\* of a missing file, and before every run of the program; the file then
\* holds the saved tests
SidecarOps ==
    /\ Len(SelectSeq(ops, IsRead)) <= 1
    /\ Len(SelectSeq(ops, IsWrite)) <= 1
    /\ \A k \in 1..Len(ops) :
          IsWrite(ops[k]) =>
              /\ k >= 3
              /\ ops[k - 1] = Op("fetch", 0, "ok")
              /\ ops[k - 2] = Op("read", 0, "None")
              /\ \A j \in 1..Len(ops) : IsRun(ops[j]) => j > k
              /\ fs[test_path_of(eng.path)] = save_tests(eng.tests)

\* a step that changes a file is the end of a successful fetch: it changes
\* the sidecar of the source only, which was missing, and no test has run
SidecarWritten ==
    fs' # fs =>
        /\ eng.pc = "fetch"
        /\ ~fs[test_path_of(eng.path)].exists
        /\ \A p \in DOMAIN fs : p # test_path_of(eng.path) => fs'[p] = fs[p]
        /\ ops' = ops \o <<Op("fetch", 0, "ok"), Op("write", 0, "ok")>>
        /\ RunOps = <<>>

\* C15: sidecar access per run. In one run_tests the sidecar is read at most
\* once and written at most once; it is written only when it was missing
\* and the fetch succeeded, and before the first test is run.
C15_SidecarAccess == []SidecarOps /\ [][SidecarWritten]_vars

\* C15's case: the sidecar was missing, the fetched tests were written and
\* the first of them has been run
C15_Witness ==
    /\ Len(ops) = 4
    /\ ops[1] = Op("read", 0, "None")
    /\ IsWrite(ops[3])
    /\ IsRun(ops[4])
    /\ fs[test_path_of(eng.path)].exists

---------------------------------------------------------------------------
(* When the samples are fetched. *)

IsFetch(o) == o.op = "fetch"

\* the current run_tests has read the sidecar, or found it missing
Loaded == SelectSeq(ops, IsRead) # <<>>

\* the sidecar was missing when the current run_tests looked for it: it
\* still is, or this run has written it
WasMissing ==
    \/ ~fs[test_path_of(eng.path)].exists
    \/ SelectSeq(ops, IsWrite) # <<>>

\* the current run_tests went for the samples: the URL could not be derived,
\* or the fetch is going on, or it is over
FetchInvoked ==
    \/ /\ eng.pc = "raised"
       /\ IsRead(ops[Len(ops)])
       /\ eng.exc = get_problem_url(cwd, eng.path).exc
    \/ eng.pc = "fetch"
    \/ SelectSeq(ops, IsFetch) # <<>>

\* the samples are fetched exactly when the sidecar is missing, and a
\* sidecar with no test in it, once read, has ended the run with no fetch,
\* write or test run
FetchIffMissing ==
    Loaded =>
        /\ WasMissing <=> FetchInvoked
        /\ (/\ IsRead(ops[Len(ops)])
            /\ read_tests(fs[test_path_of(eng.path)]) = ListResult(<<>>)) =>
                 /\ eng.pc = "returned"
                 /\ eng.ret = "True"
                 /\ \A k \in 1..Len(ops) : ops[k].op \in {"compile", "read"}
                 /\ stdout[Len(stdout)]
                       = "Ispolzuyu testy iz faila " \o test_path_of(eng.path) \o "\n"

\* a sidecar file stays, and the end of a successful fetch leaves one
SidecarStays ==
    /\ \A p \in DOMAIN fs : fs[p].exists => fs'[p].exists
    /\ (eng.pc = "fetch" /\ eng'.pc \in {"loop", "returned"}) =>
           /\ fs'[test_path_of(eng.path)].exists
           /\ read_tests(fs'[test_path_of(eng.path)]).kind = "list"

\* C16: the fetch collaborator is invoked if and only if the sidecar is
\* missing. A sidecar that decodes to no test is used as it is (no fetch, no
\* write, no test run); a successful fetch leaves a sidecar, which stays, so
\* every later run of the source reads it and does not fetch.
C16_FetchIffMissing == []FetchIffMissing /\ [][SidecarStays]_vars

\* C16's case: the second run of a watch session reads the sidecar that the
\* first run fetched and wrote
C16_Witness ==
    /\ eng.n = 2
    /\ ops # <<>>
    /\ ops[Len(ops)] = Op("read", 0, "list")
    /\ startswith(fs[test_path_of(eng.path)].text, "### Primer 1\n")

\* C16's other case: a sidecar with no test in it ended the run
C16_EmptySidecar ==
    /\ eng.pc = "returned"
    /\ ops = <<Op("read", 0, "list")>>
    /\ fs[test_path_of(eng.path)] = File("")

---------------------------------------------------------------------------
(* Comment lines and unnamed blocks of a sidecar file, checked under
   SpecCodec. *)

\* a line that begins with '#' and is neither a name marker nor the output
\* marker
IsComment(line) ==
    /\ startswith(line, "#")
    /\ ~startswith(line, "### ")
    /\ ~startswith(line, "# vyvod")

\* the lines without line i
without_line(lines, i) == SubSeq(lines, 1, i - 1) \o SubSeq(lines, i + 1, Len(lines))

\* C17: comment lines are ignored by read_tests. For the file that was read,
\* removing any one line that begins with '#' and is neither a name marker
\* nor the output marker gives a file that reads to the same result.
C17_CommentsIgnored ==
    (readFrom # "none" /\ readOf.exists) =>
        LET lines == file_lines(readOf.text)
        IN  \A i \in 1..Len(lines) :
                IsComment(lines[i]) =>
                    read_tests(File(concat(without_line(lines, i)))) = decoded

\* C17's case: a file was read that has a comment line between the name
\* marker of a test and a line of its text
C17_Witness ==
    /\ readFrom = "given"
    /\ readOf = File("### a\n#c\n5\n")
    /\ decoded = ListResult(<<Test("a", "5", "")>>)

\* a name marker line with an empty or whitespace-only name
StartsUnnamedBlock(line) == startswith(line, "### ") /\ strip(slice_from(line, 4)) = ""

\* the lines without the unnamed blocks: every name marker line with an
\* empty name goes, with the lines after it up to the next name marker
RECURSIVE drop_unnamed(_, _)
drop_unnamed(lines, dropping) ==
    IF lines = <<>> THEN <<>>
    ELSE IF StartsUnnamedBlock(Head(lines)) THEN drop_unnamed(Tail(lines), TRUE)
    ELSE IF StartsNamedBlock(Head(lines)) THEN <<Head(lines)>> \o drop_unnamed(Tail(lines), FALSE)
    ELSE IF dropping THEN drop_unnamed(Tail(lines), TRUE)
    ELSE <<Head(lines)>> \o drop_unnamed(Tail(lines), FALSE)

\* C18: blocks with an empty name are discarded. Every test read_tests
\* returns has a non-empty name; there are as many tests as name marker
\* lines with a non-empty name; and the result is the one of the file
\* without its unnamed blocks, so the lines of an unnamed block go to no
\* test, before or after.
C18_UnnamedBlocksDiscarded ==
    (readFrom # "none" /\ readOf.exists) =>
        LET lines == file_lines(readOf.text)
        IN  /\ decoded.kind = "list"
            /\ \A i \in 1..Len(decoded.tests) : decoded.tests[i].name # ""
            /\ Len(decoded.tests) = Len(SelectSeq(lines, StartsNamedBlock))
            /\ decoded = read_tests(File(concat(drop_unnamed(lines, FALSE))))

\* C18's case: a file was read that has an unnamed block with a line of
\* text between two named blocks' markers
C18_Witness ==
    /\ readFrom = "given"
    /\ readOf = File("### \n5\n### a\n")
    /\ decoded = ListResult(<<Test("a", "", "")>>)

---------------------------------------------------------------------------
(* One run at a time in watch mode. *)

\* no step starts a run_tests while one is in flight, and in watch mode the
\* main thread starts none
OneRunAtATime ==
    /\ InFlight => eng'.n = eng.n
    /\ (args.watch /\ eng'.n # eng.n) =>
          /\ eng'.n = eng.n + 1
          /\ eng'.thread = "observer"
          /\ mainpc' = mainpc

\* C19: runs are serialized in watch mode. However notifications interleave
\* with the main loop, a run_tests starts only when none is in flight: a
\* notification that arrives during a run waits in the queue and starts no
\* second run beside it.
C19_RunsSerialized == [][OneRunAtATime]_vars

\* C19's case: a notification for a known source arrived while the handler
\* of an earlier one is running the tests
C19_Witness ==
    /\ eng.thread = "observer"
    /\ eng.pc = "loop"
    /\ queue # <<>>
    /\ accepts(handled_path(Head(queue)))
    /\ ~interrupted

---------------------------------------------------------------------------
(* Saving what was read, checked under SpecCodec. *)

\* C20: re-saving a decoded corpus is stable. The tests read_tests returned
\* for a file, written with save_tests and read again, are the tests of the
\* first read.
C20_ResaveStable ==
    (casesFrom = "read" /\ readFrom = "saved") => decoded = ListResult(cases)

=============================================================================
